---- MODULE Spec2Model ----
(***************************************************************************)
(* A model of the rustix libc backend: ownership-tracked descriptors, the  *)
(* outcome translation of raw OS returns, the readiness multiplexers       *)
(* (poll, event ports, eventfd counters) and the growable-buffer loops of  *)
(* readlinkat and ptsname.                                                 *)
(*                                                                         *)
(* The module holds several specifications over one set of variables; each *)
(* one moves its own group of variables and parks the others:              *)
(*   Spec        descriptor table and owned handles (io/syscalls.rs)       *)
(*   SpecEventfd the eventfd counter round trip (tests/event/eventfd.rs)   *)
(*   SpecPoll    flat poll and the outcome translation                     *)
(*   SpecPort    event port batch retrieval (port_getn)                    *)
(*   SpecGrow    the growable-buffer loops (_readlinkat, ptsname)          *)
(*   SpecGrowFair SpecGrow with a thread that keeps running its loop        *)
(*   SpecCounter the counter object under concurrent read, write and poll  *)
(*   SpecWait    one thread polling the counter, the other writing to it   *)
(*   SpecBorrow  Borrowed Views of the owned handles                       *)
(*   SpecCalls   kevent, is_read_write and the clamped reads and writes    *)
(***************************************************************************)
EXTENDS Integers, Sequences, FiniteSets, TLC

(***************************************************************************)
(* Bounds of the model.  Integer widths are scaled down: TLC's integers    *)
(* are 32 bits wide, so a c_int/c_uint of CIntBits bits and a usize of     *)
(* UsizeBits bits stand for the 32 and 64 bits of an LP64 target.          *)
(***************************************************************************)
MaxFd == 1
MaxHandles == 3
CIntBits == 4
UsizeBits == 12
U64Bits == 13
MaxWrites == 3
MaxInitval == 1
MaxOpen == 4
MaxPending == 3
MaxNget == 3
MaxTargetLen == 1030
MaxCtOps == 3
MaxViews == 1

Pow2(n) == 2 ^ n
\* c::c_uint::MAX, c::c_int::MAX, usize::MAX at the model's widths
CUintMax == Pow2(CIntBits) - 1
CIntMax == Pow2(CIntBits - 1) - 1
UsizeMax == Pow2(UsizeBits) - 1
\* c::ssize_t::MAX and u64::MAX at the model's widths
SsizeMax == Pow2(UsizeBits - 1) - 1
U64Max == Pow2(U64Bits) - 1

Min(S) == CHOOSE x \in S : \A y \in S : x <= y
Max(S) == CHOOSE x \in S : \A y \in S : x >= y
MinOf(a, b) == IF a <= b THEN a ELSE b
MaxOf(a, b) == IF a >= b THEN a ELSE b

(***************************************************************************)
(* OS failure codes (errno values).                                        *)
(***************************************************************************)
EINTR == 4
EAGAIN == 11
EINVAL == 22
EMFILE == 24
ENOTTY == 25
ERANGE == 34
ETIME == 62
EOVERFLOW == 75
EPIPE == 32
ENOTSOCK == 88
ECONNRESET == 104

\* io::Errno::INVAL and io::Errno::OVERFLOW, the codes the layer itself
\* synthesizes
Errno_INVAL == EINVAL
Errno_OVERFLOW == EOVERFLOW

(***************************************************************************)
(* Outcome translation (backend::conv).  A raw OS return is a non-negative *)
(* success value or the negated failure code.  An outcome is a record      *)
(* [ok, val, err, owned]: owned is the descriptor a returned OwnedFd       *)
(* wraps, NoFd when the outcome carries no handle.                         *)
(***************************************************************************)
NoFd == 0 - 1

Ok(v) == [ok |-> TRUE, val |-> v, err |-> 0, owned |-> NoFd]
Err(e) == [ok |-> FALSE, val |-> 0, err |-> e, owned |-> NoFd]
OkOwned(fd) == [ok |-> TRUE, val |-> 0, err |-> 0, owned |-> fd]

\* ret: translate-to-no-value
ret(raw) == IF raw < 0 THEN Err(0 - raw) ELSE Ok(0)
\* ret_c_int: translate-to-signed-count
ret_c_int(raw) == IF raw < 0 THEN Err(0 - raw) ELSE Ok(raw)
\* ret_usize: translate-to-unsigned-count
ret_usize(raw) == IF raw < 0 THEN Err(0 - raw) ELSE Ok(raw % Pow2(UsizeBits))
\* ret_owned_fd: translate-to-owned-handle
ret_owned_fd(raw) == IF raw < 0 THEN Err(0 - raw) ELSE OkOwned(raw)
\* ret_discarded_fd: translate-discarding-handle
ret_discarded_fd(raw) == IF raw < 0 THEN Err(0 - raw) ELSE Ok(0)

VARIABLES
    \* ---- descriptor table and owned handles (Spec)
    platform,       \* "native" or "emulated": the build's dup3
    fdres,          \* kernel: descriptor -> resource it refers to (NoRes: closed)
    fdcloexec,      \* kernel: descriptor -> its close-on-exec property
    owner,          \* handle slot -> [st, fd]: the OwnedFd values
    closes,         \* handle slot -> number of OS close calls issued for it
    closeReported,  \* whether any release failure was surfaced to a caller
    lastop,         \* the last operation and what it returned
    \* ---- the eventfd round trip (SpecEventfd)
    einit,          \* initval given to eventfd
    eflags,         \* EventfdFlags given to eventfd
    script,         \* the values the child thread writes, in order
    efd,            \* the descriptor of the counter object (NoFd: not created)
    ecounter,       \* kernel: the counter's value
    widx,           \* child thread: number of writes completed
    cpc,            \* child thread: "idle", "running", "finished", "panicked"
    tpc,            \* main thread: "create", "join", "read", "done", "panicked"
    written,        \* sum of the values the kernel accepted since the last read
    rres,           \* what read returned to the main thread
    ru,             \* the value decoded from the bytes read
    \* ---- flat poll (SpecPoll)
    ppc,            \* "idle", "os" (the OS call is in progress), "done"
    pn,             \* fds.len()
    ptimeout,       \* timeout in milliseconds (-1: none)
    pcalled,        \* whether c::poll was issued
    pnfds,          \* the nfds argument c::poll was given
    prevents,       \* the output masks the OS filled in (nonzero or not)
    praw,           \* the raw return of c::poll
    pres,           \* what poll returned to its caller
    \* ---- event port batch retrieval (SpecPort)
    qpc,            \* "idle", "done", "panicked"
    qin,            \* the arguments: [len, cap, nget, timed]
    qpending,       \* kernel: events queued on the port
    qcalled,        \* whether c::port_getn was issued
    qdelivered,     \* events the OS wrote into the list
    qevlen,         \* events.len() after the call
    qres,           \* what port_getn returned to its caller
    \* ---- the growable-buffer loops (SpecGrow)
    gfn,            \* "none", "readlinkat" or "ptsname"
    gpc,            \* "idle", "loop", "done"
    gtarget,        \* length of the symlink target / of the pty name
    gosrange,       \* whether the OS fails with ERANGE instead of truncating
    gbuf,           \* the Vec<u8>: [len, cap]
    gcap0,          \* the capacity the loop started from
    gretries,       \* capacity-growth retries so far
    gcalls,         \* OS calls issued so far
    gerrs,          \* the failure codes the OS calls reported, in order
    gres,           \* what the function returned: Ok(length) or Err(code)
    gcall,          \* the last OS call: [raw, cap], its return and the capacity
    \* ---- the counter object under concurrent calls (SpecCounter)
    ctst,           \* "none", "open", "failed"
    ctflags,        \* EventfdFlags the counter object was created with
    ctcount,        \* kernel: the counter's value
    ctthr,          \* thread -> the call it is in: [st, v, len]
    ctlast,         \* the call that returned last and what it returned
    ctops,          \* calls begun so far
    \* ---- Borrowed Views of the owned handles (SpecBorrow)
    views,          \* handle slot -> 1 while a BorrowedFd of it is in scope
    vlast,          \* the last OS call made through a view
    \* ---- single calls: kevent, is_read_write, read/write (SpecCalls)
    call            \* the last call: its arguments, what reached the OS, outcome

fdVars == <<platform, fdres, fdcloexec, owner, closes, closeReported, lastop>>
evVars == <<einit, eflags, script, efd, ecounter, widx, cpc, tpc, written, rres, ru>>

pollVars == <<ppc, pn, ptimeout, pcalled, pnfds, prevents, praw, pres>>
portVars == <<qpc, qin, qpending, qcalled, qdelivered, qevlen, qres>>

growVars ==
    <<gfn, gpc, gtarget, gosrange, gbuf, gcap0, gretries, gcalls, gerrs, gres, gcall>>

ctVars == <<ctst, ctflags, ctcount, ctthr, ctlast, ctops>>

bwVars == <<views, vlast>>

callVars == <<call>>

restVars == <<ctVars, bwVars, callVars>>

vars == <<fdVars, evVars, pollVars, portVars, growVars, restVars>>

\* what each group of operations leaves alone
FdFrame == UNCHANGED <<evVars, pollVars, portVars, growVars, restVars>>
EvFrame == UNCHANGED <<fdVars, pollVars, portVars, growVars, restVars>>
PollFrame == UNCHANGED <<fdVars, evVars, portVars, growVars, restVars>>
PortFrame == UNCHANGED <<fdVars, evVars, pollVars, growVars, restVars>>
GrowFrame == UNCHANGED <<fdVars, evVars, pollVars, portVars, restVars>>
CtFrame ==
    UNCHANGED <<fdVars, evVars, pollVars, portVars, growVars, bwVars, callVars>>
BwFrame == UNCHANGED <<evVars, pollVars, portVars, growVars, ctVars, callVars>>
CallFrame ==
    UNCHANGED <<fdVars, evVars, pollVars, portVars, growVars, ctVars, bwVars>>

(***************************************************************************)
(* The kernel's descriptor table.                                          *)
(***************************************************************************)
Fds == 0 .. MaxFd
Handles == 1 .. MaxHandles
NoRes == 0
Res == 1 .. (MaxFd + 1)

CLOEXEC == "CLOEXEC"
DupFlagSets == {{}, {CLOEXEC}}

FreeFds(t, min) == {f \in Fds : f >= min /\ t[f] = NoRes}
FreshRes(t) == Min({r \in Res : \A f \in Fds : t[f] # r})

\* A kernel state is [res, cx]; an OS call yields [k, raw].
Kernel(t, c) == [res |-> t, cx |-> c]

\* eventfd2 / kqueue / port_create / posix_openpt: a new resource on the
\* lowest free descriptor
OsCreate(k, cloexec) ==
    IF FreeFds(k.res, 0) = {}
    THEN [k |-> k, raw |-> 0 - EMFILE]
    ELSE LET fd == Min(FreeFds(k.res, 0))
         IN [k |-> Kernel([k.res EXCEPT ![fd] = FreshRes(k.res)],
                          [k.cx EXCEPT ![fd] = cloexec]),
             raw |-> fd]

\* dup / fcntl(F_DUPFD_CLOEXEC, min): the lowest free descriptor >= min
\* refers to fd's resource
OsDupfd(k, fd, min, cloexec) ==
    IF min > MaxFd THEN [k |-> k, raw |-> 0 - EINVAL]
    ELSE IF FreeFds(k.res, min) = {}
    THEN [k |-> k, raw |-> 0 - EMFILE]
    ELSE LET n == Min(FreeFds(k.res, min))
         IN [k |-> Kernel([k.res EXCEPT ![n] = k.res[fd]],
                          [k.cx EXCEPT ![n] = cloexec]),
             raw |-> n]

\* dup2(old, new): new refers to old's resource, close-on-exec cleared;
\* a no-op when old = new
OsDup2(k, old, new) ==
    IF old = new THEN [k |-> k, raw |-> new]
    ELSE [k |-> Kernel([k.res EXCEPT ![new] = k.res[old]],
                       [k.cx EXCEPT ![new] = FALSE]),
          raw |-> new]

\* dup3(old, new, flags): as dup2, with close-on-exec as flags asks;
\* EINVAL when old = new
OsDup3(k, old, new, flags) ==
    IF old = new THEN [k |-> k, raw |-> 0 - EINVAL]
    ELSE [k |-> Kernel([k.res EXCEPT ![new] = k.res[old]],
                       [k.cx EXCEPT ![new] = (CLOEXEC \in flags)]),
          raw |-> new]

\* close(fd): the descriptor is released whatever the call reports
OsClose(k, fd) ==
    Kernel([k.res EXCEPT ![fd] = NoRes], [k.cx EXCEPT ![fd] = FALSE])

(***************************************************************************)
(* The wrappers of io/syscalls.rs, event/syscalls.rs and pty/syscalls.rs.  *)
(* Each yields [k, out]: the kernel state after the call and the outcome.  *)
(***************************************************************************)
Translate(r, out) == [k |-> r.k, out |-> out]

\* the counter of the new object starts at initval
eventfd(k, initval, flags) ==
    LET r == OsCreate(k, CLOEXEC \in flags)
    IN [k |-> r.k, out |-> ret_owned_fd(r.raw), counter |-> initval]

kqueue(k) ==
    LET r == OsCreate(k, FALSE) IN Translate(r, ret_owned_fd(r.raw))

port_create(k) ==
    LET r == OsCreate(k, FALSE) IN Translate(r, ret_owned_fd(r.raw))

openpt(k, flags) ==
    LET r == OsCreate(k, CLOEXEC \in flags) IN Translate(r, ret_owned_fd(r.raw))

fcntl_dupfd_cloexec(k, fd, min) ==
    LET r == OsDupfd(k, fd, min, TRUE) IN Translate(r, ret_owned_fd(r.raw))

dup(k, fd) ==
    LET r == OsDupfd(k, fd, 0, FALSE) IN Translate(r, ret_owned_fd(r.raw))

\* what a dup2 that wrapped the returned descriptor would do
dup2_owning(k, fd, new) ==
    LET r == OsDup2(k, fd, new) IN Translate(r, ret_owned_fd(r.raw))

dup2(k, fd, new) ==
    LET r == OsDup2(k, fd, new) IN Translate(r, ret_discarded_fd(r.raw))

dup3_native(k, fd, new, flags) ==
    LET r == OsDup3(k, fd, new, flags) IN Translate(r, ret_discarded_fd(r.raw))

\* the emulation: _flags is not used
dup3_emulated(k, fd, new, flags) == dup2(k, fd, new)

dup3(p, k, fd, new, flags) ==
    IF p = "native" THEN dup3_native(k, fd, new, flags)
    ELSE dup3_emulated(k, fd, new, flags)

\* what a close that retried a failed release would do
close_retrying(rc) == [calls |-> IF rc < 0 THEN 2 ELSE 1, reported |-> FALSE]

\* close(raw_fd): one OS call, its outcome rc discarded
close(rc) == [calls |-> 1, reported |-> FALSE]

(***************************************************************************)
(* Owned handles.  A slot is unused, live (an OwnedFd exists), dropped     *)
(* (its destructor ran) or released (into_raw_fd gave the descriptor up).  *)
(***************************************************************************)
Unused == [st |-> "unused", fd |-> NoFd]
Live(h) == owner[h].st = "live"
LiveHandles == {h \in Handles : Live(h)}
OwnedFds == {owner[h].fd : h \in LiveHandles}
FreeSlots == {h \in Handles : owner[h].st = "unused"}

\* An OwnedFd can be moved (dropped, into_raw_fd) or lent exclusively
\* (&mut OwnedFd) only while no BorrowedFd derived from it is in scope.
Exclusive(h) == views[h] = 0

K == Kernel(fdres, fdcloexec)

\* An io::Result<OwnedFd> reaching the caller: the handle it carries, if
\* any, becomes a live OwnedFd in a fresh slot.
Wrap(out) ==
    IF out.owned # NoFd /\ FreeSlots # {}
    THEN [owner EXCEPT ![Min(FreeSlots)] = [st |-> "live", fd |-> out.owned]]
    ELSE owner

Receive(name, r) ==
    /\ fdres' = r.k.res
    /\ fdcloexec' = r.k.cx
    /\ owner' = Wrap(r.out)
    /\ lastop' = [op |-> name, out |-> r.out]
    /\ UNCHANGED <<platform, closes, closeReported>>
    /\ FdFrame

Eventfd ==
    /\ FreeSlots # {}
    /\ \E flags \in DupFlagSets : Receive("eventfd", eventfd(K, 0, flags))

Kqueue ==
    /\ FreeSlots # {}
    /\ Receive("kqueue", kqueue(K))

PortCreate ==
    /\ FreeSlots # {}
    /\ Receive("port_create", port_create(K))

Openpt ==
    /\ FreeSlots # {}
    /\ \E flags \in DupFlagSets : Receive("openpt", openpt(K, flags))

Dup ==
    /\ FreeSlots # {}
    /\ \E h \in LiveHandles : Receive("dup", dup(K, owner[h].fd))

FcntlDupfdCloexec ==
    /\ FreeSlots # {}
    /\ \E h \in LiveHandles, min \in Fds :
          Receive("fcntl_dupfd_cloexec", fcntl_dupfd_cloexec(K, owner[h].fd, min))

\* fd borrows one handle, new is an exclusive reference to another
Dup2 ==
    /\ \E h \in LiveHandles, n \in LiveHandles :
          /\ h # n
          /\ Exclusive(n)
          /\ Receive("dup2", dup2(K, owner[h].fd, owner[n].fd))

Dup3 ==
    /\ \E h \in LiveHandles, n \in LiveHandles, flags \in DupFlagSets :
          /\ h # n
          /\ Exclusive(n)
          /\ LET r == dup3(platform, K, owner[h].fd, owner[n].fd, flags)
                 nat == OsDup3(K, owner[h].fd, owner[n].fd, flags)
             IN /\ fdres' = r.k.res
                /\ fdcloexec' = r.k.cx
                /\ owner' = Wrap(r.out)
                /\ lastop' = [op |-> "dup3", out |-> r.out,
                              src |-> owner[h].fd, dst |-> owner[n].fd,
                              flags |-> flags,
                              srcres |-> fdres[owner[h].fd],
                              native |-> nat.k]
                /\ UNCHANGED <<platform, closes, closeReported>>
                /\ FdFrame

\* as_raw_fd (peek) and as_fd (borrow): no state of the handle changes
Peek ==
    /\ \E h \in LiveHandles :
          lastop' = [op |-> "as_raw_fd", out |-> Ok(owner[h].fd)]
    /\ UNCHANGED <<platform, fdres, fdcloexec, owner, closes, closeReported>>
    /\ FdFrame

\* I/O through a borrow (fcntl_getfd): reads the descriptor's property
FcntlGetfd ==
    /\ \E h \in LiveHandles :
          lastop' = [op |-> "fcntl_getfd",
                     out |-> ret_c_int(IF fdcloexec[owner[h].fd] THEN 1 ELSE 0)]
    /\ UNCHANGED <<platform, fdres, fdcloexec, owner, closes, closeReported>>
    /\ FdFrame

\* into_raw_fd (release_ownership): the caller takes the descriptor over
IntoRaw ==
    /\ \E h \in LiveHandles :
          /\ Exclusive(h)
          /\ owner' = [owner EXCEPT ![h].st = "released"]
          /\ lastop' = [op |-> "into_raw_fd", out |-> Ok(owner[h].fd)]
    /\ UNCHANGED <<platform, fdres, fdcloexec, closes, closeReported>>
    /\ FdFrame

\* from_raw_fd (adopt): the caller asserts raw is open and owned nowhere
FromRaw ==
    /\ FreeSlots # {}
    /\ \E raw \in Fds :
          /\ fdres[raw] # NoRes
          /\ raw \notin OwnedFds
          /\ owner' = [owner EXCEPT ![Min(FreeSlots)] = [st |-> "live", fd |-> raw]]
          /\ lastop' = [op |-> "from_raw_fd", out |-> OkOwned(raw)]
    /\ UNCHANGED <<platform, fdres, fdcloexec, closes, closeReported>>
    /\ FdFrame

\* the caller closes a descriptor it took over with into_raw_fd
RawClose ==
    /\ \E raw \in Fds :
          /\ fdres[raw] # NoRes
          /\ raw \notin OwnedFds
          /\ fdres' = OsClose(K, raw).res
          /\ fdcloexec' = OsClose(K, raw).cx
          /\ lastop' = [op |-> "raw_close", out |-> Ok(raw)]
    /\ UNCHANGED <<platform, owner, closes, closeReported>>
    /\ FdFrame

\* the destructor of an OwnedFd: close(raw_fd); the OS may report a failure
Drop ==
    \E h \in LiveHandles, rc \in {0, 0 - EINTR} :
        LET c == close(rc)
        IN /\ Exclusive(h)
           /\ fdres' = OsClose(K, owner[h].fd).res
           /\ fdcloexec' = OsClose(K, owner[h].fd).cx
           /\ owner' = [owner EXCEPT ![h].st = "dropped"]
           /\ closes' = [closes EXCEPT ![h] = @ + c.calls]
           /\ closeReported' = (closeReported \/ c.reported)
           /\ lastop' = [op |-> "drop", out |-> Ok(rc)]
           /\ UNCHANGED platform
           /\ FdFrame

InitFd ==
    /\ platform \in {"native", "emulated"}
    /\ fdres = [f \in Fds |-> NoRes]
    /\ fdcloexec = [f \in Fds |-> FALSE]
    /\ owner = [h \in Handles |-> Unused]
    /\ closes = [h \in Handles |-> 0]
    /\ closeReported = FALSE
    /\ lastop = [op |-> "none", out |-> Ok(0)]

NextFd ==
    \/ Eventfd
    \/ Kqueue
    \/ PortCreate
    \/ Openpt
    \/ Dup
    \/ FcntlDupfdCloexec
    \/ Dup2
    \/ Dup3
    \/ Peek
    \/ FcntlGetfd
    \/ IntoRaw
    \/ FromRaw
    \/ RawClose
    \/ Drop

(***************************************************************************)
(* The eventfd counter object and the round trip of                        *)
(* tests/event/eventfd.rs: the main thread creates the counter, a child    *)
(* thread writes the script's values, the main thread joins and reads.     *)
(***************************************************************************)
NONBLOCK == "NONBLOCK"
SEMAPHORE == "SEMAPHORE"

\* READ_LIMIT (not macOS): c::ssize_t::MAX as usize
READ_LIMIT == SsizeMax

\* size_of::<u64>()
SizeOfU64 == 8

\* the values test_eventfd writes
TestScript == <<1, 3, 6, 11, 5000>>
WriteVals == {TestScript[i] : i \in 1 .. Len(TestScript)}

RECURSIVE SumSeq(_)
SumSeq(q) == IF q = <<>> THEN 0 ELSE Head(q) + SumSeq(Tail(q))

\* u64::to_ne_bytes on a little-endian target: the n low bytes of u
RECURSIVE to_ne_bytes(_, _)
to_ne_bytes(u, n) ==
    IF n = 0 THEN <<>> ELSE <<u % 256>> \o to_ne_bytes(u \div 256, n - 1)

\* u64::from_ne_bytes
RECURSIVE from_ne_bytes(_)
from_ne_bytes(b) ==
    IF b = <<>> THEN 0 ELSE Head(b) + 256 * from_ne_bytes(Tail(b))

\* kernel: write(2) on an eventfd adds the 8-byte value to the counter; it
\* blocks (EAGAIN when non-blocking) while the sum would pass U64Max - 1
OsEventfdWrite(counter, flags, buf, len) ==
    IF len < SizeOfU64
    THEN [counter |-> counter, raw |-> 0 - EINVAL, blocked |-> FALSE]
    ELSE LET v == from_ne_bytes(SubSeq(buf, 1, SizeOfU64))
         IN IF v = U64Max
            THEN [counter |-> counter, raw |-> 0 - EINVAL, blocked |-> FALSE]
            ELSE IF counter + v > U64Max - 1
            THEN [counter |-> counter, raw |-> 0 - EAGAIN,
                  blocked |-> (NONBLOCK \notin flags)]
            ELSE [counter |-> counter + v, raw |-> SizeOfU64, blocked |-> FALSE]

\* kernel: read(2) on an eventfd returns the counter and resets it (default
\* mode) or returns 1 and decrements it (semaphore mode); it blocks (EAGAIN
\* when non-blocking) while the counter is zero
OsEventfdRead(counter, flags, len) ==
    IF len < SizeOfU64
    THEN [counter |-> counter, raw |-> 0 - EINVAL, blocked |-> FALSE, buf |-> <<>>]
    ELSE IF counter = 0
    THEN [counter |-> counter, raw |-> 0 - EAGAIN,
          blocked |-> (NONBLOCK \notin flags), buf |-> <<>>]
    ELSE IF SEMAPHORE \in flags
    THEN [counter |-> counter - 1, raw |-> SizeOfU64, blocked |-> FALSE,
          buf |-> to_ne_bytes(1, SizeOfU64)]
    ELSE [counter |-> 0, raw |-> SizeOfU64, blocked |-> FALSE,
          buf |-> to_ne_bytes(counter, SizeOfU64)]

\* what a write that passed the OS one byte too few would do
write_short(counter, flags, buf) ==
    LET r == OsEventfdWrite(counter, flags, buf, MinOf(Len(buf), READ_LIMIT) - 1)
    IN [counter |-> r.counter, blocked |-> r.blocked, out |-> ret_usize(r.raw)]

\* what a write that cast the raw return without translating it would do
write_untranslated(counter, flags, buf) ==
    LET r == OsEventfdWrite(counter, flags, buf, MinOf(Len(buf), READ_LIMIT))
    IN [counter |-> r.counter, blocked |-> r.blocked,
        out |-> Ok(r.raw % Pow2(UsizeBits))]

\* io::write(fd, buf) on the counter object; while the OS call blocks the
\* caller has no outcome yet
write(counter, flags, buf) ==
    LET r == OsEventfdWrite(counter, flags, buf, MinOf(Len(buf), READ_LIMIT))
    IN [counter |-> r.counter, blocked |-> r.blocked, out |-> ret_usize(r.raw)]

\* what a read that passed the OS one byte too few would do
read_short(counter, flags, buflen) ==
    LET r == OsEventfdRead(counter, flags, MinOf(buflen, READ_LIMIT) - 1)
    IN [counter |-> r.counter, blocked |-> r.blocked, buf |-> r.buf,
        out |-> ret_usize(r.raw)]

\* io::read(fd, buf) on the counter object, buf of buflen bytes
read(counter, flags, buflen) ==
    LET r == OsEventfdRead(counter, flags, MinOf(buflen, READ_LIMIT))
    IN [counter |-> r.counter, blocked |-> r.blocked, buf |-> r.buf,
        out |-> ret_usize(r.raw)]

\* what a join that did not wait for the child would let through
JoinNoWait == cpc \in {"running", "finished"}

\* child.join() returns once the child thread has returned (or panicked)
JoinReady == cpc = "finished"

EmptyKernel == Kernel([f \in Fds |-> NoRes], [f \in Fds |-> FALSE])

\* let efd = eventfd(initval, flags).unwrap(); thread::spawn(..)
TestCreate ==
    /\ tpc = "create"
    /\ LET r == eventfd(EmptyKernel, einit, eflags)
       IN /\ efd' = r.out.owned
          /\ ecounter' = r.counter
          /\ tpc' = IF r.out.ok THEN "join" ELSE "panicked"
          /\ cpc' = IF r.out.ok THEN "running" ELSE "idle"
    /\ UNCHANGED <<einit, eflags, script, widx, written, rres, ru>>
    /\ EvFrame

\* assert_eq!(write(&efd, &u.to_ne_bytes()).unwrap(), size_of::<u64>())
ChildWrite ==
    /\ cpc = "running"
    /\ widx < Len(script)
    /\ LET r == write(ecounter, eflags, to_ne_bytes(script[widx + 1], SizeOfU64))
       IN /\ ~r.blocked
          /\ ecounter' = r.counter
          /\ written' = written + (r.counter - ecounter)
          /\ IF r.out = Ok(SizeOfU64)
             THEN widx' = widx + 1 /\ cpc' = cpc
             ELSE widx' = widx /\ cpc' = "panicked"
    /\ UNCHANGED <<einit, eflags, script, efd, tpc, rres, ru>>
    /\ EvFrame

\* the child returns efd after the last write
ChildReturn ==
    /\ cpc = "running"
    /\ widx = Len(script)
    /\ cpc' = "finished"
    /\ UNCHANGED <<einit, eflags, script, efd, ecounter, widx, tpc, written, rres, ru>>
    /\ EvFrame

\* let efd = child.join().unwrap()
MainJoin ==
    /\ tpc = "join"
    /\ \/ JoinReady /\ tpc' = "read"
       \/ cpc = "panicked" /\ tpc' = "panicked"
    /\ UNCHANGED <<einit, eflags, script, efd, ecounter, widx, cpc, written, rres, ru>>
    /\ EvFrame

\* let s = read(&efd, &mut bytes).unwrap(); u64::from_ne_bytes(bytes)
MainRead ==
    /\ tpc = "read"
    /\ LET r == read(ecounter, eflags, SizeOfU64)
       IN /\ ~r.blocked
          /\ ecounter' = r.counter
          /\ rres' = r.out
          /\ ru' = IF r.out.ok THEN from_ne_bytes(r.buf) ELSE 0
          /\ tpc' = IF r.out.ok THEN "done" ELSE "panicked"
          /\ written' = IF r.out.ok /\ r.counter = 0 THEN 0 ELSE written
    /\ UNCHANGED <<einit, eflags, script, efd, widx, cpc>>
    /\ EvFrame

Scripts == {TestScript} \cup UNION {[1 .. n -> WriteVals] : n \in 0 .. MaxWrites}

InitEv ==
    /\ einit \in 0 .. MaxInitval
    /\ eflags \in {{CLOEXEC} \cup f : f \in SUBSET {NONBLOCK, SEMAPHORE}}
    /\ script \in Scripts
    /\ efd = NoFd
    /\ ecounter = 0
    /\ widx = 0
    /\ cpc = "idle"
    /\ tpc = "create"
    /\ written = 0
    /\ rres = Ok(0)
    /\ ru = 0

ParkEv ==
    /\ einit = 0
    /\ eflags = {}
    /\ script = <<>>
    /\ efd = NoFd
    /\ ecounter = 0
    /\ widx = 0
    /\ cpc = "idle"
    /\ tpc = "parked"
    /\ written = 0
    /\ rres = Ok(0)
    /\ ru = 0

NextEv ==
    \/ TestCreate
    \/ ChildWrite
    \/ ChildReturn
    \/ MainJoin
    \/ MainRead

\* C1: the counter round trip.  When the main thread's default-mode read
\* returns after the child's writes have all completed, it returned 8 bytes
\* whose value is the initial value plus the sum of the written values: 5021
\* for initial value 0 and the writes 1, 3, 6, 11, 5000.  The run fails only
\* in non-blocking mode, on a write that would overflow or a read of zero.
CounterRoundTrip ==
    /\ (tpc = "done" /\ SEMAPHORE \notin eflags) =>
          /\ rres = Ok(SizeOfU64)
          /\ widx = Len(script)
          /\ ru = einit + SumSeq(script)
          /\ (einit = 0 /\ script = TestScript) => ru = 5021
    /\ (tpc = "panicked") =>
          /\ NONBLOCK \in eflags
          /\ \/ einit + SumSeq(script) > U64Max - 1
             \/ einit + SumSeq(script) = 0

\* the test's own run has completed: initial value 0, the five writes, read
TestRunDone ==
    /\ tpc = "done"
    /\ einit = 0
    /\ script = TestScript
    /\ eflags = {CLOEXEC}
    /\ widx = 5
    /\ ru = 5021

(***************************************************************************)
(* Flat poll (event/syscalls.rs).  nfds_t is c_uint wide (the targets where*)
(* a usize length may not fit); the OS refuses more than MaxOpen entries.  *)
(***************************************************************************)
NfdsMax == CUintMax

\* `as usize` of a c_int
AsUsize(x) == x % Pow2(UsizeBits)

\* what a poll that passed one entry too few would do
poll_nfds_short(len) == IF len = 0 THEN Ok(0) ELSE Ok(len - 1)

\* what a conversion by `as` (truncating) would do
poll_nfds_truncating(len) == Ok(len % (NfdsMax + 1))

\* fds.len().try_into().map_err(|_convert_err| io::Errno::INVAL)
poll_nfds(len) == IF len <= NfdsMax THEN Ok(len) ELSE Err(Errno_INVAL)

\* what a poll that translated with ret (no value) would do
poll_ret_discarding(raw) ==
    LET r == ret(raw) IN IF r.ok THEN Ok(0) ELSE r

\* what a poll that cast the raw return without translating it would do
poll_ret_untranslated(raw) == Ok(AsUsize(raw))

\* ret_c_int(..).map(|nready| nready as usize)
poll_ret(raw) ==
    LET r == ret_c_int(raw) IN IF r.ok THEN Ok(AsUsize(r.val)) ELSE r

\* kernel: the replies c::poll may give for nfds entries: a failure, or the
\* entries it marks ready (none when the timeout expires; with no timeout it
\* returns only once an entry is ready or a signal arrives)
OsPollReplies(nfds, timeout) ==
    IF nfds > MaxOpen
    THEN {[raw |-> 0 - EINVAL, revents |-> {}]}
    ELSE {[raw |-> 0 - EINTR, revents |-> {}]}
         \cup {[raw |-> Cardinality(S), revents |-> S] :
                  S \in {T \in SUBSET (1 .. nfds) : timeout >= 0 \/ T # {}}}

\* poll is called: the length is converted; on failure it returns at once
PollEnter ==
    /\ ppc = "idle"
    /\ \E n \in 0 .. (NfdsMax + 1), t \in {0 - 1, 0, 1} :
          LET c == poll_nfds(n)
          IN /\ pn' = n
             /\ ptimeout' = t
             /\ IF c.ok
                THEN /\ ppc' = "os"
                     /\ pcalled' = TRUE
                     /\ pnfds' = c.val
                     /\ pres' = pres
                ELSE /\ ppc' = "done"
                     /\ pcalled' = FALSE
                     /\ pnfds' = pnfds
                     /\ pres' = c
    /\ UNCHANGED <<prevents, praw>>
    /\ PollFrame

\* c::poll returns and its raw return is translated
PollReturn ==
    /\ ppc = "os"
    /\ \E r \in OsPollReplies(pnfds, ptimeout) :
          /\ praw' = r.raw
          /\ prevents' = r.revents
          /\ pres' = poll_ret(r.raw)
    /\ ppc' = "done"
    /\ UNCHANGED <<pn, ptimeout, pcalled, pnfds>>
    /\ PollFrame

InitPoll ==
    /\ ppc = "idle"
    /\ pn = 0
    /\ ptimeout = 0
    /\ pcalled = FALSE
    /\ pnfds = 0
    /\ prevents = {}
    /\ praw = 0
    /\ pres = Ok(0)

NextPoll ==
    \/ PollEnter
    \/ PollReturn

\* C4: outcome translation in poll.  A negative raw return gives an error
\* whose code is its magnitude, a non-negative one gives success with that
\* value as a usize, zero is success, and no error carries the code zero.
PollOutcomeTranslation ==
    /\ (ppc = "done" /\ pcalled) =>
          /\ praw < 0 => pres = Err(0 - praw)
          /\ praw >= 0 => pres = Ok(praw)
          /\ praw = 0 => pres.ok
    /\ ~pres.ok => pres.err # 0

\* poll has returned success on a raw return of exactly zero
PollZeroSeen ==
    /\ ppc = "done"
    /\ pcalled
    /\ pn > 0
    /\ praw = 0
    /\ pres = Ok(0)

\* poll has returned for a length that nfds_t cannot represent
PollOverflowCase == ppc = "done" /\ pn > NfdsMax

\* C5 as stated: a length that does not fit nfds_t is reported as an
\* overflow error and the OS poll call is not issued.
PollOverflowIsOverflow ==
    PollOverflowCase => (pres = Err(Errno_OVERFLOW) /\ ~pcalled)

\* C5 amended: a length that does not fit nfds_t is reported as the
\* invalid-argument error (io::Errno::INVAL) without the OS poll call being
\* issued; a length that fits reaches the OS unchanged.
PollOverflowIsInval ==
    /\ PollOverflowCase => (pres = Err(Errno_INVAL) /\ ~pcalled)
    /\ (ppc # "idle" /\ pn <= NfdsMax) => (pcalled /\ pnfds = pn)

\* poll was given one entry more than nfds_t can count
PollOverflowSeen == PollOverflowCase /\ pn = NfdsMax + 1 /\ ~pres.ok

(***************************************************************************)
(* Event port batch retrieval (port_getn, event/syscalls.rs).  The kernel  *)
(* keeps qpending queued events; port_send queues one.                     *)
(***************************************************************************)
\* kernel: port_getn(port, list, max, &nget, timeout).  max = 0 only reports
\* the number of queued events in nget; nget > max is EINVAL; otherwise the
\* call waits until nget events are queued and retrieves up to max of them,
\* or times out (ETIME) with what is there.  [raw, nget, delivered, blocked]
OsPortGetn(pending, max, nget, timed) ==
    IF max = 0
    THEN [raw |-> 0, nget |-> pending, delivered |-> 0, blocked |-> FALSE]
    ELSE IF nget > max
    THEN [raw |-> 0 - EINVAL, nget |-> nget, delivered |-> 0, blocked |-> FALSE]
    ELSE IF pending >= nget
    THEN [raw |-> 0, nget |-> MinOf(max, pending),
          delivered |-> MinOf(max, pending), blocked |-> FALSE]
    ELSE [raw |-> 0 - ETIME, nget |-> pending, delivered |-> pending,
          blocked |-> ~timed]

\* port_getn(port, timeout, events, nget) on a vector of length len:
\* [panicked, called, out, len, delivered, pending]
port_getn(pending, len, nget, timed) ==
    IF len > CUintMax
    THEN \* events.len().try_into().unwrap()
         [panicked |-> TRUE, called |-> FALSE, blocked |-> FALSE, out |-> Err(0),
          len |-> len, delivered |-> 0, pending |-> pending]
    ELSE LET r == OsPortGetn(pending, len, nget, timed)
             out == ret(r.raw)
         IN [panicked |-> FALSE, called |-> TRUE, blocked |-> r.blocked,
             out |-> out,
             \* events.set_len(nget.try_into().unwrap())
             len |-> IF out.ok THEN r.nget ELSE len,
             delivered |-> r.delivered,
             pending |-> pending - r.delivered]

\* port_send(port, events, userdata): one more event is queued
PortSend ==
    /\ qpc = "idle"
    /\ qpending < MaxPending
    /\ qpending' = qpending + 1
    /\ UNCHANGED <<qpc, qin, qcalled, qdelivered, qevlen, qres>>
    /\ PortFrame

EventLens == (0 .. MaxNget) \cup {CUintMax, CUintMax + 1}

PortGetn ==
    /\ qpc = "idle"
    /\ \E len \in EventLens, extra \in 0 .. 1, nget \in 0 .. MaxNget,
          timed \in BOOLEAN :
          LET r == port_getn(qpending, len, nget, timed)
          IN /\ ~r.blocked
             /\ qin' = [len |-> len, cap |-> len + extra, nget |-> nget,
                        timed |-> timed]
             /\ qpc' = IF r.panicked THEN "panicked" ELSE "done"
             /\ qcalled' = r.called
             /\ qdelivered' = r.delivered
             /\ qpending' = r.pending
             /\ qevlen' = r.len
             /\ qres' = r.out
    /\ PortFrame

InitPort ==
    /\ qpc = "idle"
    /\ qin = [len |-> 0, cap |-> 0, nget |-> 0, timed |-> FALSE]
    /\ qpending = 0
    /\ qcalled = FALSE
    /\ qdelivered = 0
    /\ qevlen = 0
    /\ qres = Ok(0)

NextPort ==
    \/ PortSend
    \/ PortGetn

\* C6: port_getn always reports a typed outcome: when the buffer's length
\* does not fit the call's native width it returns the overflow error, and
\* it never panics.
PortGetnNeverPanics ==
    /\ qpc # "panicked"
    /\ (qpc = "done" /\ qin.len > CUintMax) => qres = Err(Errno_OVERFLOW)

\* C7: after a successful port_getn the vector's length equals the number
\* of events the OS delivered, and is neither more than the requested count
\* nor more than the vector's capacity.
PortGetnLengthIsDelivered ==
    (qpc = "done" /\ qres.ok) =>
        /\ qevlen = qdelivered
        /\ qevlen <= qin.nget
        /\ qevlen <= qin.cap

(***************************************************************************)
(* The growable-buffer loops: _readlinkat (fs/at.rs) and ptsname           *)
(* (pty/syscalls.rs).  A Vec<u8> is [len, cap].                            *)
(***************************************************************************)
\* crate::path::SMALL_PATH_BUFFER_SIZE
SMALL_PATH_BUFFER_SIZE == 256

\* Vec::clear
VecClear(v) == [v EXCEPT !.len = 0]

\* what Vec::reserve_exact would do: growth to just what is asked for
VecReserve_exact(v, additional) ==
    IF v.cap - v.len >= additional THEN v
    ELSE [v EXCEPT !.cap = v.len + additional]

\* Vec::reserve: no change while the spare capacity suffices, else the
\* amortized growth max(2 * cap, len + additional, 8)
VecReserve(v, additional) ==
    IF v.cap - v.len >= additional THEN v
    ELSE [v EXCEPT !.cap = MaxOf(MaxOf(2 * v.cap, v.len + additional), 8)]

\* Vec::resize(new_len, 0) for new_len <= capacity, and Vec::set_len
VecSetLen(v, n) == [v EXCEPT !.len = n]

\* kernel: readlinkat places at most bufsize bytes of the target, with no
\* terminator, and returns their number; an OS of the ERANGE kind fails
\* instead when the target does not fit; fail is a failure of another kind
OsReadlinkat(target, bufsize, osrange, fail) ==
    IF fail # 0 THEN 0 - fail
    ELSE IF osrange /\ target > bufsize THEN 0 - ERANGE
    ELSE MinOf(target, bufsize)

\* libc: ptsname_r returns 0 when the name and its terminator fit buflen,
\* the code ERANGE when they do not, or another failure code
OsPtsnameR(name, buflen, fail) ==
    IF fail # 0 THEN fail
    ELSE IF name + 1 > buflen THEN ERANGE
    ELSE 0

\* buffer.clear(); buffer.reserve(SMALL_PATH_BUFFER_SIZE)
readlinkat_enter(v) == VecReserve(VecClear(v), SMALL_PATH_BUFFER_SIZE)

\* what a loop that accepted a completely filled buffer would do
readlinkat_iter_le(v, raw) ==
    LET r == ret_usize(raw)
    IN IF ~r.ok THEN [done |-> TRUE, out |-> r, buf |-> v]
       ELSE IF r.val <= v.cap
       THEN [done |-> TRUE, out |-> Ok(r.val), buf |-> VecSetLen(v, r.val)]
       ELSE [done |-> FALSE, out |-> Ok(0), buf |-> VecReserve(v, v.cap + 1)]

\* one turn of the loop of _readlinkat, given the raw return of the OS call
\* on buffer.spare_capacity_mut(): [done, out, buf]
readlinkat_iter(v, raw) ==
    LET r == ret_usize(raw)
    IN IF ~r.ok THEN [done |-> TRUE, out |-> r, buf |-> v]
       ELSE IF r.val < v.cap
       THEN [done |-> TRUE, out |-> Ok(r.val), buf |-> VecSetLen(v, r.val)]
       ELSE [done |-> FALSE, out |-> Ok(0), buf |-> VecReserve(v, v.cap + 1)]

\* buffer.clear(); buffer.reserve(SMALL_PATH_BUFFER_SIZE);
\* buffer.resize(buffer.capacity(), 0)
ptsname_enter(v) ==
    LET w == VecReserve(VecClear(v), SMALL_PATH_BUFFER_SIZE)
    IN VecSetLen(w, w.cap)

\* what a loop that did not single out ERANGE would do
ptsname_iter_noretry(v, r, name) ==
    IF r = 0 THEN [done |-> TRUE, out |-> Ok(name), buf |-> v]
    ELSE [done |-> TRUE, out |-> Err(r), buf |-> v]

\* one turn of the loop of ptsname, given the return r of ptsname_r; the
\* CStr read back from the buffer has the name's length
ptsname_iter(v, r, name) ==
    IF r = 0 THEN [done |-> TRUE, out |-> Ok(name), buf |-> v]
    ELSE IF r # ERANGE THEN [done |-> TRUE, out |-> Err(r), buf |-> v]
    ELSE LET w == VecReserve(v, 1)
         IN [done |-> FALSE, out |-> Ok(0), buf |-> VecSetLen(w, w.cap)]

\* the buffers a caller may pass for reuse
ReuseBuffers == {[len |-> 0, cap |-> 0], [len |-> 7, cap |-> 300]}

Log(errs, code) == IF code = 0 THEN errs ELSE Append(errs, code)

ReadlinkatEnter ==
    /\ gpc = "idle"
    /\ \E t \in 0 .. MaxTargetLen, v \in ReuseBuffers, o \in BOOLEAN :
          /\ gtarget' = t
          /\ gosrange' = o
          /\ gbuf' = readlinkat_enter(v)
          /\ gcap0' = readlinkat_enter(v).cap
    /\ gfn' = "readlinkat"
    /\ gpc' = "loop"
    /\ UNCHANGED <<gretries, gcalls, gerrs, gres, gcall>>
    /\ GrowFrame

ReadlinkatIter ==
    /\ gpc = "loop"
    /\ gfn = "readlinkat"
    /\ \E fail \in {0, EINVAL} :
          LET raw == OsReadlinkat(gtarget, gbuf.cap - gbuf.len, gosrange, fail)
              s == readlinkat_iter(gbuf, raw)
          IN /\ gcalls' = gcalls + 1
             /\ gcall' = [raw |-> raw, cap |-> gbuf.cap]
             /\ gerrs' = Log(gerrs, IF raw < 0 THEN 0 - raw ELSE 0)
             /\ gbuf' = s.buf
             /\ gpc' = IF s.done THEN "done" ELSE "loop"
             /\ gres' = IF s.done THEN s.out ELSE gres
             /\ gretries' = IF s.done THEN gretries ELSE gretries + 1
    /\ UNCHANGED <<gfn, gtarget, gosrange, gcap0>>
    /\ GrowFrame

PtsnameEnter ==
    /\ gpc = "idle"
    /\ \E t \in 0 .. MaxTargetLen, v \in ReuseBuffers :
          /\ gtarget' = t
          /\ gbuf' = ptsname_enter(v)
          /\ gcap0' = ptsname_enter(v).cap
    /\ gfn' = "ptsname"
    /\ gpc' = "loop"
    /\ UNCHANGED <<gosrange, gretries, gcalls, gerrs, gres, gcall>>
    /\ GrowFrame

PtsnameIter ==
    /\ gpc = "loop"
    /\ gfn = "ptsname"
    /\ \E fail \in {0, EINVAL, ENOTTY} :
          LET r == OsPtsnameR(gtarget, gbuf.len, fail)
              s == ptsname_iter(gbuf, r, gtarget)
          IN /\ gcalls' = gcalls + 1
             /\ gcall' = [raw |-> r, cap |-> gbuf.cap]
             /\ gerrs' = Log(gerrs, r)
             /\ gbuf' = s.buf
             /\ gpc' = IF s.done THEN "done" ELSE "loop"
             /\ gres' = IF s.done THEN s.out ELSE gres
             /\ gretries' = IF s.done THEN gretries ELSE gretries + 1
    /\ UNCHANGED <<gfn, gtarget, gosrange, gcap0>>
    /\ GrowFrame

InitGrow ==
    /\ gfn = "none"
    /\ gpc = "idle"
    /\ gtarget = 0
    /\ gosrange = FALSE
    /\ gbuf = [len |-> 0, cap |-> 0]
    /\ gcap0 = 0
    /\ gretries = 0
    /\ gcalls = 0
    /\ gerrs = <<>>
    /\ gres = Ok(0)
    /\ gcall = [raw |-> 0, cap |-> 0]

NextGrow ==
    \/ ReadlinkatEnter
    \/ ReadlinkatIter
    \/ PtsnameEnter
    \/ PtsnameIter

\* the least k with c * 2^k >= l, that is ceil(log2(l / c)) for l >= c
RECURSIVE CeilLog2Ratio(_, _)
CeilLog2Ratio(l, c) == IF c >= l THEN 0 ELSE 1 + CeilLog2Ratio(l, 2 * c)

\* the least k with c * 2^k > l, that is floor(log2(l / c)) + 1 for l >= c
RECURSIVE FloorLog2RatioPlus1(_, _)
FloorLog2RatioPlus1(l, c) == IF c > l THEN 0 ELSE 1 + FloorLog2RatioPlus1(l, 2 * c)

ReadlinkatResolved ==
    gfn = "readlinkat" /\ gpc = "done" /\ gres.ok /\ gcap0 < gtarget

\* C8 as stated: resolving a target of length L from initial capacity C < L
\* takes exactly ceil(log2(L / C)) growth retries and returns exactly L bytes.
ReadlinkatRetriesCeil ==
    ReadlinkatResolved =>
        /\ gretries = CeilLog2Ratio(gtarget, gcap0)
        /\ gres.val = gtarget
        /\ gbuf.len = gtarget

\* C8 amended: when the OS calls succeed, resolving a target of length L
\* from initial capacity C < L takes exactly floor(log2(L / C)) + 1 growth
\* retries (the least k with C * 2^k > L) and returns exactly L bytes, with
\* one OS call more than retries.
ReadlinkatRetriesFloor ==
    ReadlinkatResolved =>
        /\ gretries = FloorLog2RatioPlus1(gtarget, gcap0)
        /\ gcalls = gretries + 1
        /\ gres.val = gtarget
        /\ gbuf.len = gtarget

\* a target of exactly twice the initial capacity has been resolved
ReadlinkatDoubleSeen ==
    ReadlinkatResolved /\ gtarget = 2 * SMALL_PATH_BUFFER_SIZE /\ gretries = 2

\* C9 as stated: in both loops the range error is never returned to the
\* caller, and any other error ends the loop at once and is returned.
RangeErrorNeverSurfaced ==
    /\ (gpc = "done" /\ ~gres.ok) => gres.err # ERANGE
    /\ \A i \in 1 .. Len(gerrs) :
          gerrs[i] # ERANGE => (gpc = "done" /\ i = Len(gerrs) /\ gres = Err(gerrs[i]))

\* C9 amended: in the pty loop the range error is a retry signal that is
\* never returned, and any other error ends the loop at once and is
\* returned; in the symlink loop every error, the range error included,
\* ends the loop at once and is returned (its retry signal is a completely
\* filled buffer).
RangeErrorRetriesPtsnameOnly ==
    /\ gfn = "ptsname" =>
          /\ (gpc = "done" /\ ~gres.ok) => gres.err # ERANGE
          /\ \A i \in 1 .. Len(gerrs) :
                gerrs[i] # ERANGE =>
                    (gpc = "done" /\ i = Len(gerrs) /\ gres = Err(gerrs[i]))
          /\ gretries = Cardinality({i \in 1 .. Len(gerrs) : gerrs[i] = ERANGE})
    /\ gfn = "readlinkat" =>
          /\ Len(gerrs) <= 1
          /\ gerrs # <<>> => (gpc = "done" /\ gres = Err(gerrs[1]))
    /\ gpc = "loop" => gcalls = gretries
    /\ gpc = "done" => gcalls = gretries + 1

\* the pty loop has ended on another error after retrying on a range error
PtsnameRetriedThenFailed ==
    /\ gfn = "ptsname"
    /\ gpc = "done"
    /\ gerrs = <<ERANGE, ENOTTY>>
    /\ gres = Err(ENOTTY)
    /\ gcalls = 2

\* C16: symlink target resolution returns data only when the length the OS
\* reported is strictly less than the buffer capacity, and the value
\* returned has exactly that length; after a call that reported a length
\* equal to the capacity nothing is returned: the capacity has grown and the
\* loop goes on to the next OS call.
ReadlinkatReturnsOnlyFit ==
    gfn = "readlinkat" =>
       /\ (gpc = "done" /\ gres.ok) =>
             /\ gcall.raw < gcall.cap
             /\ gres.val = gcall.raw
             /\ gbuf.len = gcall.raw
             /\ gbuf.cap = gcall.cap
       /\ (gcalls > 0 /\ gcall.raw = gcall.cap) =>
             /\ gpc = "loop"
             /\ gbuf.cap > gcall.cap
             /\ gbuf.len = 0

\* a target exactly as long as the first capacity has been resolved on the
\* second call
ReadlinkatFullBufferSeen ==
    /\ gfn = "readlinkat"
    /\ gpc = "done"
    /\ gres = Ok(SMALL_PATH_BUFFER_SIZE)
    /\ gtarget = SMALL_PATH_BUFFER_SIZE
    /\ gcalls = 2
    /\ gbuf.cap = 2 * SMALL_PATH_BUFFER_SIZE

\* every failure code the OS calls reported was the range error
OnlyRangeErrors == \A i \in 1 .. Len(gerrs) : gerrs[i] = ERANGE

\* C17 as stated: in both loops, when the OS call reports no error other
\* than the range error, the loop ends with a success result.
GrowthEndsInSuccess ==
    (gpc = "done" /\ OnlyRangeErrors) => gres.ok

\* C17 amended: in both loops every retry at least doubles the capacity
\* (and strictly increases it), and the loop ends; it ends with a success
\* result when the OS call reported no error at all (symlink loop, where a
\* range error is returned to the caller) or no error other than the range
\* error (pty loop).
GrowthDoublesAndEnds ==
    /\ [][gretries' = gretries + 1 =>
            (gbuf'.cap >= 2 * gbuf.cap /\ gbuf'.cap > gbuf.cap)]_vars
    /\ [](gpc = "done" =>
            /\ (gfn = "ptsname" /\ OnlyRangeErrors) => gres = Ok(gtarget)
            /\ (gfn = "readlinkat" /\ gerrs = <<>>) => gres = Ok(gtarget))
    /\ (gpc = "loop" ~> gpc = "done")

\* the pty loop has succeeded after two doublings of the capacity
PtsnameGrownTwiceSeen ==
    /\ gfn = "ptsname"
    /\ gpc = "done"
    /\ gres.ok
    /\ gretries = 2
    /\ gerrs = <<ERANGE, ERANGE>>
    /\ gbuf.cap = 4 * gcap0

(***************************************************************************)
(* The counter object under concurrent calls.  Each thread is idle or in   *)
(* one read or write call on the counter; a call that the kernel keeps      *)
(* blocked has not returned, and returns once the counter lets it.          *)
(***************************************************************************)
Threads == {"main", "other"}

\* the counter's maximum: the largest value the counter can hold
CtMax == U64Max - 1

CtIdle ==
    [st |-> "idle", v |-> 0, len |-> 0, entries |-> <<>>, nfds |-> 0,
     timeout |-> 0, slept |-> FALSE, expired |-> FALSE]

CtNoCall ==
    [kind |-> "none", pre |-> 0, post |-> 0, v |-> 0, len |-> 0,
     out |-> Ok(0), val |-> 0, entries |-> <<>>, timeout |-> 0,
     revents |-> {}, slept |-> FALSE, expired |-> FALSE]

\* values written: one, half the range, the counter's maximum and the value
\* the kernel refuses
CtWriteVals == {1, (U64Max + 1) \div 2, U64Max - 1, U64Max}

\* lengths of the buffers read into
CtBufLens == {SizeOfU64 - 1, SizeOfU64}

\* the PollFd lists polled: every entry names the counter object and asks
\* for readability ("IN") or writability ("OUT")
CtEntryLists == {<<>>, <<"IN">>, <<"OUT">>, <<"IN", "IN">>, <<"OUT", "IN">>}

\* kernel: the counter object is readable while nonzero and writable while
\* a write of 1 would fit
CtReady(count, want) ==
    IF want = "IN" THEN count > 0 ELSE count < CtMax

\* kernel: poll(2) over the first nfds entries.  It returns the number of
\* ready entries, their output masks filled in; with none ready it returns
\* 0 at once (timeout 0) or once the timeout has expired, and otherwise
\* keeps the caller blocked.  No signal is delivered to the threads.
OsPoll(count, entries, nfds, timeout, expired) ==
    LET ready == {i \in 1 .. MinOf(nfds, Len(entries)) : CtReady(count, entries[i])}
    IN [raw |-> Cardinality(ready), revents |-> ready,
        blocked |-> (ready = {} /\ timeout # 0 /\ ~expired)]

\* the call a thread is in, as the kernel sees it
CtKernel(t) ==
    LET c == ctthr[t]
    IN IF c.st = "read"
       THEN read(ctcount, ctflags, c.len)
       ELSE IF c.st = "write"
       THEN write(ctcount, ctflags, to_ne_bytes(c.v, SizeOfU64))
       ELSE OsPoll(ctcount, c.entries, c.nfds, c.timeout, c.expired)

\* eventfd(initval, flags)
CtCreate ==
    /\ ctst = "none"
    /\ \E initval \in 0 .. MaxInitval, f \in SUBSET {NONBLOCK, SEMAPHORE} :
          LET r == eventfd(EmptyKernel, initval, {CLOEXEC} \cup f)
          IN /\ ctst' = IF r.out.ok THEN "open" ELSE "failed"
             /\ ctflags' = {CLOEXEC} \cup f
             /\ ctcount' = r.counter
    /\ UNCHANGED <<ctthr, ctlast, ctops>>
    /\ CtFrame

\* a thread calls read(&efd, &mut buf)
CtReadCall(t) ==
    /\ ctst = "open"
    /\ ctthr[t].st = "idle"
    /\ ctops < MaxCtOps
    /\ \E len \in CtBufLens :
          ctthr' = [ctthr EXCEPT ![t] = [CtIdle EXCEPT !.st = "read", !.len = len]]
    /\ ctops' = ctops + 1
    /\ UNCHANGED <<ctst, ctflags, ctcount, ctlast>>
    /\ CtFrame

\* a thread calls write(&efd, &v.to_ne_bytes())
CtWriteCall(t) ==
    /\ ctst = "open"
    /\ ctthr[t].st = "idle"
    /\ ctops < MaxCtOps
    /\ \E v \in CtWriteVals :
          ctthr' = [ctthr EXCEPT ![t] =
                       [CtIdle EXCEPT !.st = "write", !.v = v, !.len = SizeOfU64]]
    /\ ctops' = ctops + 1
    /\ UNCHANGED <<ctst, ctflags, ctcount, ctlast>>
    /\ CtFrame

\* a thread calls poll(&mut fds, timeout): the length is converted and
\* c::poll is entered (the lists polled here all fit nfds_t)
CtPollCall(t) ==
    /\ ctst = "open"
    /\ ctthr[t].st = "idle"
    /\ ctops < MaxCtOps
    /\ \E e \in CtEntryLists, tm \in {0 - 1, 0, 1} :
          /\ poll_nfds(Len(e)).ok
          /\ ctthr' = [ctthr EXCEPT ![t] =
                          [CtIdle EXCEPT !.st = "poll", !.entries = e,
                                         !.nfds = poll_nfds(Len(e)).val,
                                         !.timeout = tm]]
    /\ ctops' = ctops + 1
    /\ UNCHANGED <<ctst, ctflags, ctcount, ctlast>>
    /\ CtFrame

\* the kernel puts a thread to sleep whose call cannot proceed
CtBlock(t) ==
    /\ ctthr[t].st # "idle"
    /\ ~ctthr[t].slept
    /\ CtKernel(t).blocked
    /\ ctthr' = [ctthr EXCEPT ![t].slept = TRUE]
    /\ UNCHANGED <<ctst, ctflags, ctcount, ctlast, ctops>>
    /\ CtFrame

\* the timeout of a blocked poll expires
CtPollExpire(t) ==
    /\ ctthr[t].st = "poll"
    /\ ctthr[t].timeout > 0
    /\ ctthr[t].slept
    /\ ~ctthr[t].expired
    /\ ctthr' = [ctthr EXCEPT ![t].expired = TRUE]
    /\ UNCHANGED <<ctst, ctflags, ctcount, ctlast, ctops>>
    /\ CtFrame

\* the read returns (the kernel does not keep it blocked)
CtReadReturn(t) ==
    /\ ctthr[t].st = "read"
    /\ LET r == CtKernel(t)
       IN /\ ~r.blocked
          /\ ctcount' = r.counter
          /\ ctlast' = [CtNoCall EXCEPT
                           !.kind = "read", !.pre = ctcount, !.post = r.counter,
                           !.len = ctthr[t].len, !.out = r.out,
                           !.val = IF r.out.ok THEN from_ne_bytes(r.buf) ELSE 0,
                           !.slept = ctthr[t].slept]
    /\ ctthr' = [ctthr EXCEPT ![t] = CtIdle]
    /\ UNCHANGED <<ctst, ctflags, ctops>>
    /\ CtFrame

\* the write returns (the kernel does not keep it blocked)
CtWriteReturn(t) ==
    /\ ctthr[t].st = "write"
    /\ LET r == CtKernel(t)
       IN /\ ~r.blocked
          /\ ctcount' = r.counter
          /\ ctlast' = [CtNoCall EXCEPT
                           !.kind = "write", !.pre = ctcount, !.post = r.counter,
                           !.v = ctthr[t].v, !.len = SizeOfU64, !.out = r.out,
                           !.slept = ctthr[t].slept]
    /\ ctthr' = [ctthr EXCEPT ![t] = CtIdle]
    /\ UNCHANGED <<ctst, ctflags, ctops>>
    /\ CtFrame

\* c::poll returns and its raw return is translated
CtPollReturn(t) ==
    /\ ctthr[t].st = "poll"
    /\ LET r == CtKernel(t)
       IN /\ ~r.blocked
          /\ ctlast' = [CtNoCall EXCEPT
                           !.kind = "poll", !.pre = ctcount, !.post = ctcount,
                           !.out = poll_ret(r.raw), !.entries = ctthr[t].entries,
                           !.timeout = ctthr[t].timeout, !.revents = r.revents,
                           !.slept = ctthr[t].slept,
                           !.expired = ctthr[t].expired]
    /\ ctthr' = [ctthr EXCEPT ![t] = CtIdle]
    /\ UNCHANGED <<ctst, ctflags, ctcount, ctops>>
    /\ CtFrame

InitCt ==
    /\ ctst = "none"
    /\ ctflags = {}
    /\ ctcount = 0
    /\ ctthr = [t \in Threads |-> CtIdle]
    /\ ctlast = CtNoCall
    /\ ctops = 0

NextCt ==
    \/ CtCreate
    \/ \E t \in Threads : CtReadCall(t)
    \/ \E t \in Threads : CtWriteCall(t)
    \/ \E t \in Threads : CtPollCall(t)
    \/ \E t \in Threads : CtBlock(t)
    \/ \E t \in Threads : CtPollExpire(t)
    \/ \E t \in Threads : CtReadReturn(t)
    \/ \E t \in Threads : CtWriteReturn(t)
    \/ \E t \in Threads : CtPollReturn(t)

\* C11: read semantics of the counter object.  A read into a buffer of at
\* least 8 bytes returns only while the counter is nonzero, or at once with
\* would-block in non-blocking mode leaving the counter (zero) unchanged; a
\* default-mode read returns the full counter value and leaves the counter
\* at zero, a semaphore-mode read returns 1 and decrements it by exactly one.
CounterReadSemantics ==
    (ctlast.kind = "read" /\ ctlast.len >= SizeOfU64) =>
       /\ ctlast.pre > 0 =>
             /\ ctlast.out = Ok(SizeOfU64)
             /\ IF SEMAPHORE \in ctflags
                THEN ctlast.val = 1 /\ ctlast.post = ctlast.pre - 1
                ELSE ctlast.val = ctlast.pre /\ ctlast.post = 0
       /\ ctlast.pre = 0 =>
             /\ NONBLOCK \in ctflags
             /\ ctlast.out = Err(EAGAIN)
             /\ ctlast.post = 0
       /\ ctlast.slept => NONBLOCK \notin ctflags

\* a semaphore-mode read that the kernel had kept blocked on a zero counter
\* has taken one off a counter above one
CtSemaphoreReadSeen ==
    /\ ctlast.kind = "read"
    /\ ctlast.slept
    /\ SEMAPHORE \in ctflags
    /\ ctlast.pre > 1
    /\ ctlast.val = 1
    /\ ctlast.post = ctlast.pre - 1

\* C12: write semantics of the counter object.  A write whose value fits
\* adds it to the counter; one whose addition would pass the counter's
\* maximum does not return while it does not fit (blocking mode) or fails
\* (non-blocking mode: would-block), the counter left unchanged; the
\* counter never wraps and never passes its maximum.  (The all-ones value,
\* which can never fit, is refused as an invalid argument in either mode.)
CounterWriteSemantics ==
    /\ ctcount <= CtMax
    /\ ctlast.kind = "write" =>
          IF ctlast.pre + ctlast.v <= CtMax
          THEN /\ ctlast.out = Ok(SizeOfU64)
               /\ ctlast.post = ctlast.pre + ctlast.v
          ELSE /\ ctlast.post = ctlast.pre
               /\ ~ctlast.out.ok
               /\ ~ctlast.slept
               /\ ctlast.v <= CtMax =>
                     (NONBLOCK \in ctflags /\ ctlast.out = Err(EAGAIN))

\* a non-blocking write that would overflow has failed with would-block
CtOverflowWriteSeen ==
    /\ ctlast.kind = "write"
    /\ ctlast.pre > 0
    /\ ctlast.v <= CtMax
    /\ ctlast.pre + ctlast.v > CtMax
    /\ ctlast.out = Err(EAGAIN)
    /\ ctcount = ctlast.pre

\* the entries of list e that the kernel finds ready on a counter of count
CtReadySet(count, e) == {i \in 1 .. Len(e) : CtReady(count, e[i])}

\* C13: flat poll over counter entries.  The returned ready count is the
\* number of entries whose output mask is nonzero, and those are the entries
\* that are ready; with timeout 0 the call is never kept blocked and, when
\* no entry has pending readiness, returns a ready count of 0; a count of 0
\* is otherwise returned only after the timeout has expired.
PollReadyCount ==
    ctlast.kind = "poll" =>
       /\ ctlast.out = Ok(Cardinality(ctlast.revents))
       /\ ctlast.revents = CtReadySet(ctlast.pre, ctlast.entries)
       /\ ctlast.timeout = 0 =>
             /\ ~ctlast.slept
             /\ CtReadySet(ctlast.pre, ctlast.entries) = {} => ctlast.out = Ok(0)
       /\ (ctlast.out = Ok(0) /\ ctlast.timeout # 0) =>
             (ctlast.expired /\ ctlast.timeout > 0)

\* a poll with timeout 0 over two entries without pending readiness has
\* returned 0
PollNothingPendingSeen ==
    /\ ctlast.kind = "poll"
    /\ ctlast.timeout = 0
    /\ ctlast.entries = <<"IN", "IN">>
    /\ ctlast.pre = 0
    /\ ctlast.out = Ok(0)
    /\ ~ctlast.slept

\* One thread polls the counter, the other writes to it.
NextWait ==
    \/ CtCreate
    \/ CtPollCall("main")
    \/ CtWriteCall("other")
    \/ \E t \in Threads : CtBlock(t)
    \/ CtPollExpire("main")
    \/ CtWriteReturn("other")
    \/ CtPollReturn("main")

\* the main thread is blocked in poll on a readable-entry for the counter and
\* the counter has become nonzero
WaitWritten ==
    /\ ctthr["main"].st = "poll"
    /\ ctthr["main"].slept
    /\ \E i \in 1 .. Len(ctthr["main"].entries) : ctthr["main"].entries[i] = "IN"
    /\ ctcount > 0

\* the blocked poll has returned with an entry reported ready
WaitReported ==
    /\ ctthr["main"].st = "idle"
    /\ ctlast.kind = "poll"
    /\ ctlast.slept
    /\ ctlast.out.ok
    /\ ctlast.out.val >= 1

AsFd ==
    /\ Cardinality({h \in Handles : views[h] > 0}) < MaxViews
    /\ \E h \in LiveHandles :
          /\ views[h] = 0
          /\ views' = [views EXCEPT ![h] = @ + 1]
    /\ UNCHANGED <<fdVars, vlast>>
    /\ BwFrame

\* an operation through a view in scope reaches the OS (fcntl_getfd)
ViewUse ==
    /\ \E h \in Handles :
          /\ views[h] > 0
          /\ vlast' = [op |-> "fcntl_getfd", fd |-> owner[h].fd,
                       st |-> owner[h].st, closes |-> closes[h],
                       res |-> fdres[owner[h].fd],
                       out |-> ret_c_int(IF fdcloexec[owner[h].fd] THEN 1 ELSE 0)]
    /\ UNCHANGED <<fdVars, views>>
    /\ BwFrame

\* the scope of a view ends
ViewEnd ==
    /\ \E h \in Handles :
          /\ views[h] > 0
          /\ views' = [views EXCEPT ![h] = @ - 1]
    /\ UNCHANGED <<fdVars, vlast>>
    /\ BwFrame

InitBw ==
    /\ views = [h \in Handles |-> 0]
    /\ vlast = [op |-> "none", fd |-> NoFd, st |-> "unused", closes |-> 0,
                res |-> NoRes, out |-> Ok(0)]

NextBorrow ==
    \/ Kqueue
    \/ Dup2
    \/ AsFd
    \/ ViewUse
    \/ ViewEnd
    \/ IntoRaw
    \/ RawClose
    \/ Drop

\* C15: a Borrowed View is never used after its Owned Handle was released.
\* Every view in scope derives from a handle that is still live, whose
\* descriptor is open and for which no release call was issued, and every
\* operation that reached the OS through a view did so on such a descriptor.
BorrowWithinOwner ==
    /\ \A h \in Handles :
          views[h] > 0 =>
             /\ Live(h)
             /\ closes[h] = 0
             /\ fdres[owner[h].fd] # NoRes
    /\ vlast.op # "none" =>
          /\ vlast.st = "live"
          /\ vlast.closes = 0
          /\ vlast.res # NoRes

\* a view was used next to a handle that has already been dropped, and is
\* still in scope
ViewUsedSeen ==
    /\ vlast.op = "fcntl_getfd"
    /\ vlast.out.ok
    /\ \E h \in Handles : views[h] > 0 /\ owner[h].fd = vlast.fd
    /\ \E h \in Handles : owner[h].st = "dropped"

(***************************************************************************)
(* Single calls: kevent (event/syscalls.rs), is_read_write and the plain   *)
(* and vectored reads and writes (io/syscalls.rs).                         *)
(***************************************************************************)
\* kernel: kevent applies the nchanges changes to the queue's subscriptions
\* and writes at most nevents of the pending events to the event list
OsKevent(subs, pending, nchanges, nevents, fail) ==
    IF fail # 0
    THEN [subs |-> subs, written |-> 0, raw |-> 0 - fail]
    ELSE [subs |-> subs + nchanges, written |-> MinOf(pending, nevents),
          raw |-> MinOf(pending, nevents)]

\* what a kevent that converted the lengths with `as` (wrapping) would do
kevent_wrapping(subs, pending, clen, elen, fail) ==
    LET r == OsKevent(subs, pending, clen % (CIntMax + 1), elen % (CIntMax + 1), fail)
    IN [called |-> TRUE, subs |-> r.subs, written |-> r.written,
        out |-> ret_c_int(r.raw)]

\* kevent(kq, changelist, eventlist, timeout): both lengths are converted
\* to c_int before c::kevent is called
kevent(subs, pending, clen, elen, fail) ==
    IF clen > CIntMax \/ elen > CIntMax
    THEN [called |-> FALSE, subs |-> subs, written |-> 0,
          out |-> Err(Errno_OVERFLOW)]
    ELSE LET r == OsKevent(subs, pending, clen, elen, fail)
         IN [called |-> TRUE, subs |-> r.subs, written |-> r.written,
             out |-> ret_c_int(r.raw)]

Kevent ==
    /\ \E subs \in 0 .. 1, pending \in 0 .. MaxPending,
          clen \in {0, 1, CIntMax, CIntMax + 1, UsizeMax},
          elen \in {0, 1, CIntMax, CIntMax + 1, UsizeMax},
          fail \in {0, EINTR} :
          LET r == kevent(subs, pending, clen, elen, fail)
          IN call' = [op |-> "kevent", subs |-> subs, clen |-> clen,
                      elen |-> elen, called |-> r.called, after |-> r.subs,
                      written |-> r.written, out |-> r.out]
    /\ CallFrame

\* the outcome of is_read_write: Ok((read, write)) or Err(code)
RwOk(r, w) == [ok |-> TRUE, read |-> r, write |-> w, err |-> 0]
RwErr(e) == [ok |-> FALSE, read |-> FALSE, write |-> FALSE, err |-> e]

\* what an is_read_write that probed the write side of a non-socket too
\* would do
is_read_write_probing(mode, recvr, sendr) ==
    IF ~mode.ok THEN [out |-> mode, recv |-> FALSE, send |-> FALSE]
    ELSE LET rd == IF mode.read /\ recvr.ret = 0 THEN FALSE ELSE mode.read
             rfail == mode.read /\ recvr.ret = 0 - 1
                         /\ recvr.errno \notin {EAGAIN, ENOTSOCK}
             sprobe == mode.write
             wr == IF sprobe /\ sendr.ret = 0 - 1 /\ sendr.errno = EPIPE
                   THEN FALSE ELSE mode.write
             sfail == sprobe /\ sendr.ret = 0 - 1
                         /\ sendr.errno \notin {EAGAIN, ENOTSOCK, EPIPE}
         IN IF rfail THEN [out |-> RwErr(recvr.errno), recv |-> TRUE, send |-> FALSE]
            ELSE IF sfail THEN [out |-> RwErr(sendr.errno), recv |-> mode.read, send |-> TRUE]
            ELSE [out |-> RwOk(rd, wr), recv |-> mode.read, send |-> sprobe]

\* is_read_write(fd).  mode is the outcome of _is_file_read_write, recvr
\* and sendr are what recv(MSG_PEEK | MSG_DONTWAIT, 1 byte) and
\* send(MSG_DONTWAIT, 0 bytes) give: [ret, errno].  Yields the outcome and
\* which probes were issued.
is_read_write(mode, recvr, sendr) ==
    IF ~mode.ok THEN [out |-> mode, recv |-> FALSE, send |-> FALSE]
    ELSE LET rd == IF mode.read /\ recvr.ret = 0 THEN FALSE ELSE mode.read
             rfail == mode.read /\ recvr.ret = 0 - 1
                         /\ recvr.errno \notin {EAGAIN, ENOTSOCK}
             not_socket == mode.read /\ recvr.ret = 0 - 1 /\ recvr.errno = ENOTSOCK
             sprobe == mode.write /\ ~not_socket
             wr == IF sprobe /\ sendr.ret = 0 - 1 /\ sendr.errno = EPIPE
                   THEN FALSE ELSE mode.write
             sfail == sprobe /\ sendr.ret = 0 - 1
                         /\ sendr.errno \notin {EAGAIN, ENOTSOCK, EPIPE}
         IN IF rfail THEN [out |-> RwErr(recvr.errno), recv |-> TRUE, send |-> FALSE]
            ELSE IF sfail THEN [out |-> RwErr(sendr.errno), recv |-> mode.read, send |-> TRUE]
            ELSE [out |-> RwOk(rd, wr), recv |-> mode.read, send |-> sprobe]

\* is_read_write on a descriptor of any access mode; each probe may give 0,
\* a positive count, or -1 with an errno
IsReadWrite ==
    /\ \E mode \in {RwOk(r, w) : r \in BOOLEAN, w \in BOOLEAN} \cup {RwErr(EINVAL)},
          rr \in {0 - 1, 0, 1}, sr \in {0 - 1, 0},
          re \in {EAGAIN, ENOTSOCK, EPIPE, ECONNRESET},
          se \in {EAGAIN, ENOTSOCK, EPIPE, ECONNRESET} :
          LET recvr == [ret |-> rr, errno |-> IF rr < 0 THEN re ELSE 0]
              sendr == [ret |-> sr, errno |-> IF sr < 0 THEN se ELSE 0]
              r == is_read_write(mode, recvr, sendr)
          IN call' = [op |-> "is_read_write", mode |-> mode, recvr |-> recvr,
                      sendr |-> sendr, recv |-> r.recv, send |-> r.send,
                      out |-> r.out]
    /\ CallFrame

\* MAX_IOV (backend): the most buffers a vectored call takes, scaled as
\* the widths are
MAX_IOV == Pow2(CIntBits - 2)

\* kernel: a transfer of at most len bytes moves part of them (none, half
\* or all) or fails
OsTransfer(len, part, fail) ==
    IF fail # 0 THEN 0 - fail
    ELSE IF part = "none" THEN 0
    ELSE IF part = "half" THEN len \div 2
    ELSE len

\* what a call that passed the buffer's length unclamped would do
rw_len_unclamped(buflen) == buflen

\* min(buf.len(), READ_LIMIT): the length read, write, pread and pwrite
\* pass to the OS
rw_len(buflen) == MinOf(buflen, READ_LIMIT)

\* min(bufs.len(), MAX_IOV) as c::c_int: the count readv and writev pass
iov_cnt(n) ==
    LET x == MinOf(n, MAX_IOV)
    IN ((x + Pow2(CIntBits - 1)) % Pow2(CIntBits)) - Pow2(CIntBits - 1)

\* read / write / pread / pwrite on a buffer of buflen bytes
IoCall ==
    /\ \E op \in {"read", "write", "pread", "pwrite"},
          buflen \in {0, 1, READ_LIMIT - 1, READ_LIMIT, READ_LIMIT + 1, UsizeMax},
          part \in {"none", "half", "all"}, fail \in {0, EINVAL} :
          LET len == rw_len(buflen)
          IN call' = [op |-> op, buflen |-> buflen, len |-> len, fail |-> fail,
                      out |-> ret_usize(OsTransfer(len, part, fail))]
    /\ CallFrame

\* readv / writev on n buffers of one byte each
IovCall ==
    /\ \E op \in {"readv", "writev"}, n \in 0 .. (MAX_IOV + 2),
          part \in {"none", "half", "all"}, fail \in {0, EINVAL} :
          LET cnt == iov_cnt(n)
          IN call' = [op |-> op, buflen |-> n, len |-> cnt, fail |-> fail,
                      out |-> ret_usize(OsTransfer(cnt, part, fail))]
    /\ CallFrame

NextCall ==
    \/ Kevent
    \/ IsReadWrite
    \/ IoCall
    \/ IovCall

\* C18: kevent with a changelist length or an event-list length that c_int
\* cannot represent returns the overflow error without issuing the OS call:
\* no change is applied to the queue and nothing is written to the event
\* list.
KeventOverflow ==
    (call.op = "kevent" /\ (call.clen > CIntMax \/ call.elen > CIntMax)) =>
        /\ call.out = Err(Errno_OVERFLOW)
        /\ ~call.called
        /\ call.after = call.subs
        /\ call.written = 0

\* kevent was given a changelist that fits and an event list one entry
\* longer than c_int can count
KeventOverflowSeen ==
    /\ call.op = "kevent"
    /\ call.clen = 1
    /\ call.elen = CIntMax + 1
    /\ call.out = Err(Errno_OVERFLOW)
    /\ call.after = call.subs

\* C19: is_read_write refines the file's (read, write) access pair.  A
\* readable descriptor is peeked: 0 clears read, would-block or a positive
\* count keep it, not-a-socket keeps it and suppresses the write probe, any
\* other error is returned.  A writable descriptor not found to be a
\* non-socket is probed with an empty send: broken-pipe clears write,
\* would-block and not-a-socket keep it, any other error is returned.  A
\* flag is only ever turned from true to false.
ReadWriteRefinement ==
    /\ (call.op = "is_read_write" /\ ~call.mode.ok) =>
          (call.out = call.mode /\ ~call.recv /\ ~call.send)
    /\ (call.op = "is_read_write" /\ call.mode.ok) =>
       LET m == call.mode
           rv == call.recvr
           sd == call.sendr
           rerr == rv.ret = 0 - 1 /\ rv.errno \notin {EAGAIN, ENOTSOCK}
           nosock == m.read /\ rv.ret = 0 - 1 /\ rv.errno = ENOTSOCK
           serr == sd.ret = 0 - 1 /\ sd.errno \notin {EAGAIN, ENOTSOCK, EPIPE}
       IN /\ call.recv = m.read
          /\ (m.read /\ rerr) => (call.out = RwErr(rv.errno) /\ ~call.send)
          /\ ~(m.read /\ rerr) =>
                /\ call.send = (m.write /\ ~nosock)
                /\ (call.send /\ serr) => call.out = RwErr(sd.errno)
                /\ ~(call.send /\ serr) =>
                      /\ call.out.ok
                      /\ call.out.read = (m.read /\ rv.ret # 0)
                      /\ call.out.write =
                            (m.write /\ ~(call.send /\ sd.ret = 0 - 1 /\ sd.errno = EPIPE))
          /\ call.out.ok => ((call.out.read => m.read) /\ (call.out.write => m.write))

\* a readable and writable non-socket: the peek failed with not-a-socket,
\* the write probe was not issued and both flags stay true
NotSocketSeen ==
    /\ call.op = "is_read_write"
    /\ call.mode = RwOk(TRUE, TRUE)
    /\ call.recvr.errno = ENOTSOCK
    /\ call.sendr.errno = EPIPE
    /\ call.recv
    /\ ~call.send
    /\ call.out = RwOk(TRUE, TRUE)

\* C20: read, write, pread and pwrite never pass the OS a length above
\* READ_LIMIT: the length passed is min(buffer length, READ_LIMIT), clamping
\* reports no error, and a successful result is at most that; readv and
\* writev pass min(number of buffers, MAX_IOV) buffers.
ClampedLengths ==
    /\ call.op \in {"read", "write", "pread", "pwrite"} =>
          /\ call.len <= READ_LIMIT
          /\ call.len = MinOf(call.buflen, READ_LIMIT)
          /\ call.fail = 0 => (call.out.ok /\ call.out.val <= call.len)
          /\ ~call.out.ok => call.out = Err(call.fail)
    /\ call.op \in {"readv", "writev"} =>
          /\ call.len <= MAX_IOV
          /\ call.len = MinOf(call.buflen, MAX_IOV)

\* a read into a buffer longer than READ_LIMIT has filled READ_LIMIT bytes
ClampedReadSeen ==
    /\ call.op = "read"
    /\ call.buflen = UsizeMax
    /\ call.len = READ_LIMIT
    /\ call.out = Ok(READ_LIMIT)

(***************************************************************************)
(* Claims about the descriptor table and the owned handles.                *)
(***************************************************************************)

\* C2: over any sequence of operations on an Owned Handle exactly one
\* release (close) call is issued for its descriptor: none while it is live
\* or after into_raw_fd gave the descriptor up, exactly one once it is
\* dropped, also when that call reported a failure (no retry), and no
\* release failure is ever reported to a caller.
ExactlyOneRelease ==
    /\ \A h \in Handles :
          /\ owner[h].st \in {"unused", "live", "released"} => closes[h] = 0
          /\ owner[h].st = "dropped" => closes[h] = 1
    /\ ~closeReported

\* a destructor has just run whose close reported a failure, next to a
\* handle that gave its descriptor up and one that is still live
FailedReleaseSeen ==
    /\ lastop.op = "drop"
    /\ lastop.out.val < 0
    /\ \E h \in Handles : owner[h].st = "released"
    /\ \E h \in Handles : owner[h].st = "dropped" /\ closes[h] = 1
    /\ LiveHandles # {}

\* C3: no two live Owned Handles wrap the same descriptor, every live
\* handle's descriptor is open, and dup2/dup3 hand no handle back.
NoAliasedOwners ==
    /\ \A h1 \in LiveHandles, h2 \in LiveHandles :
          h1 # h2 => owner[h1].fd # owner[h2].fd
    /\ \A h \in LiveHandles : fdres[owner[h].fd] # NoRes
    /\ lastop.op \in {"dup2", "dup3"} => lastop.out.owned = NoFd

\* dup2 has just succeeded onto an existing handle: two live handles with
\* their own descriptors now refer to one resource
Dup2OntoOwnedSeen ==
    /\ lastop.op = "dup2"
    /\ lastop.out.ok
    /\ \E h1 \in LiveHandles, h2 \in LiveHandles :
          h1 # h2 /\ fdres[owner[h1].fd] = fdres[owner[h2].fd]

\* C10: after a successful dup3 the destination refers to the source's
\* resource and carries the properties asked for in flags, exactly as the
\* native dup3 leaves the descriptor table.
Dup3MatchesNative ==
    (lastop.op = "dup3" /\ lastop.out.ok) =>
        /\ fdres[lastop.dst] = lastop.srcres
        /\ fdcloexec[lastop.dst] = (CLOEXEC \in lastop.flags)
        /\ Kernel(fdres, fdcloexec) = lastop.native

ParkFd ==
    /\ platform = "native"
    /\ fdres = [f \in Fds |-> NoRes]
    /\ fdcloexec = [f \in Fds |-> FALSE]
    /\ owner = [h \in Handles |-> Unused]
    /\ closes = [h \in Handles |-> 0]
    /\ closeReported = FALSE
    /\ lastop = [op |-> "none", out |-> Ok(0)]

(***************************************************************************)
(* The specifications.                                                     *)
(***************************************************************************)
ParkRest == InitCt /\ InitBw /\ call = [op |-> "none"]

Init == InitFd /\ ParkEv /\ InitPoll /\ InitPort /\ InitGrow /\ ParkRest

Next == NextFd

Spec == Init /\ [][Next]_vars

InitEventfd == InitEv /\ ParkFd /\ InitPoll /\ InitPort /\ InitGrow /\ ParkRest

SpecEventfd == InitEventfd /\ [][NextEv]_vars

InitPollOnly == InitPoll /\ ParkFd /\ ParkEv /\ InitPort /\ InitGrow /\ ParkRest

SpecPoll == InitPollOnly /\ [][NextPoll]_vars

InitPortOnly == InitPort /\ ParkFd /\ ParkEv /\ InitPoll /\ InitGrow /\ ParkRest

SpecPort == InitPortOnly /\ [][NextPort]_vars

InitGrowOnly == InitGrow /\ ParkFd /\ ParkEv /\ InitPoll /\ InitPort /\ ParkRest

SpecGrow == InitGrowOnly /\ [][NextGrow]_vars

\* a thread inside a loop goes on running it
SpecGrowFair ==
    InitGrowOnly /\ [][NextGrow]_vars
       /\ WF_vars(ReadlinkatIter) /\ WF_vars(PtsnameIter)

InitCounter ==
    ParkFd /\ ParkEv /\ InitPoll /\ InitPort /\ InitGrow /\ ParkRest

SpecCounter == InitCounter /\ [][NextCt]_vars

SpecBorrow == Init /\ [][NextBorrow]_vars

SpecCalls == InitCounter /\ [][NextCall]_vars

\* a thread whose poll can return is eventually run
SpecWait == InitCounter /\ [][NextWait]_vars /\ WF_vars(CtPollReturn("main"))

====
